---- MODULE Spec2Model ----
(***************************************************************************)
(* A model of l-command: the configuration loader (config.py), the handler *)
(* registry (handlers/__init__.py), the command's entry point and helpers  *)
(* (cli.py) and the directory and binary handlers (handlers/).             *)
(***************************************************************************)
EXTENDS Integers, Sequences, FiniteSets, TLC

VARIABLES
    rpc,        \* where the configuration/registry run stands
    data,       \* the parsed TOML document handed to load_config_from_dict
    config,     \* the Config object: [version, handlers]
    placed,     \* handler names assigned directly into Config.handlers
    handlers,   \* the list get_handlers returned
    file,       \* what load_config met at the configuration file's path
    mpc,        \* where the run of the command stands
    path,       \* the target path, as the file system shows it
    missing,    \* the external commands that are not installed
    status,     \* how an external command ends once it runs
    stdout,     \* what was written to standard output
    stderr,     \* what was written to the error stream
    spawned,    \* the external commands run, in order
    evaluated,  \* the handler classes whose can_handle was called, in order
    invoked,    \* the handler classes whose handle was called, in order
    result,     \* how the call ended: "0", "1", "raise", "return" or "none"
    tty,        \* whether standard output is attached to a terminal
    height,     \* the rows of the terminal
    fileout,    \* how the file command ends once it runs
    pagerin,    \* the bytes handed to the pager on its standard input
    nread,      \* the bytes a predicate read of the file
    proc,       \* the child processes of BinaryHandler.handle and their pipes
    nlines,     \* line_count: the lines handle counted in its first run
    script,     \* what the hexdump process started last writes, and its status
    pending,    \* the exception on its way out of handle's inner try
    ret         \* the value a function called on its own returned

rvars == <<rpc, data, config, placed, handlers, file>>
\* the processes of BinaryHandler.handle
pvars == <<proc, nlines, script, pending>>
mvars == <<mpc, path, missing, status, stdout, stderr, spawned, evaluated,
           invoked, result, tty, height, fileout, pagerin, nread, ret, pvars>>
vars == <<rvars, mvars>>
\* what a run is given: the path and the state of the system around it
envvars == <<path, missing, status, tty, height, fileout>>

(***************************************************************************)
(* Bounds of the model.                                                    *)
(***************************************************************************)
\* entries of the [handlers] table of a parsed document
MaxEntries == 2
\* direct assignments config.handlers[name] = HandlerConfig(...)
MaxPlace == 2

(***************************************************************************)
(* Python values, as far as the loader tells them apart: a type tag and,   *)
(* for int and bool, the number they compare as (True == 1, False == 0).   *)
(***************************************************************************)
PyNone == [t |-> "NoneType", v |-> 0]
\* the key is missing from the dict
Absent == [t |-> "absent", v |-> 0]
PyInt(n) == [t |-> "int", v |-> n]
PyBool(b) == [t |-> "bool", v |-> IF b THEN 1 ELSE 0]
PyStr(i) == [t |-> "str", v |-> i]
PyFloat(i) == [t |-> "float", v |-> i]
\* a dict, identified by a number; 0 is the empty dict {}
PyDict(i) == [t |-> "dict", v |-> i]

\* the text of string number i
StrOf(i) == CASE i = 1 -> "yes"
              [] i = 2 -> "high"
              [] i = 3 -> "not a dict"
              [] i = 4 -> "2.0"
              [] OTHER -> ""

\* isinstance(x, bool)
isinstance_bool(x) == x.t = "bool"
\* isinstance(x, int): bool is a subclass of int
isinstance_int(x) == x.t \in {"int", "bool"}
\* isinstance(x, dict)
isinstance_dict(x) == x.t = "dict"
\* isinstance(x, str)
isinstance_str(x) == x.t = "str"
\* truth value of an object used as a condition
truthy(x) == CASE x.t \in {"bool", "int"} -> x.v # 0
               [] x.t = "NoneType" -> FALSE
               [] OTHER -> TRUE

\* d.get(key, default) for a field read out of a dict
dict_get(field, default) == IF field = Absent THEN default ELSE field

(***************************************************************************)
(* HandlerConfig and Config (config.py).                                   *)
(***************************************************************************)
HandlerConfig(enabled, priority, options) ==
    [enabled |-> enabled, priority |-> priority, options |-> options]

\* HandlerConfig(enabled=e, priority=p): options defaults to {}
HandlerConfig2(enabled, priority) == HandlerConfig(enabled, priority, PyDict(0))

\* GeneralConfig().version
DefaultVersion == "1.0"

DefaultPriorities ==
    [directory |-> 100, archive |-> 80, image |-> 65, pdf |-> 60,
     binary |-> 60, media |-> 55, json |-> 50, xml |-> 45, csv |-> 40,
     markdown |-> 35, yaml |-> 30, default |-> 0]

\* Config.default()
ConfigDefault ==
    [version |-> DefaultVersion,
     handlers |-> [n \in DOMAIN DefaultPriorities |->
                     HandlerConfig2(PyBool(TRUE), PyInt(DefaultPriorities[n]))]]

(***************************************************************************)
(* validate_handler_config (config.py): the result is <<>> for None and    *)
(* <<hc>> for a HandlerConfig.                                             *)
(***************************************************************************)
validate_handler_config(name, d) ==
    IF ~isinstance_dict(d) THEN <<>>
    ELSE LET enabled0 == dict_get(d.enabled, PyBool(TRUE))
             enabled == IF ~isinstance_bool(enabled0) THEN PyBool(TRUE) ELSE enabled0
             priority0 == dict_get(d.priority, PyNone)
             priority == IF priority0 # PyNone /\ ~isinstance_int(priority0)
                         THEN PyNone ELSE priority0
             options0 == dict_get(d.options, PyDict(0))
             options == IF ~isinstance_dict(options0) THEN PyDict(0) ELSE options0
         IN <<HandlerConfig(enabled, priority, options)>>

\* merge_entry without the test that the name is a known handler
merge_entry_keeps_unknown(h, name, value) ==
    LET res == validate_handler_config(name, value)
        hc == res[1]
        merged == IF name \in DOMAIN h /\ hc.priority = PyNone
                  THEN [hc EXCEPT !.priority = h[name].priority]
                  ELSE hc
    IN IF res = <<>> THEN h
       ELSE [n \in DOMAIN h \cup {name} |-> IF n = name THEN merged ELSE h[n]]

\* the body of the loop over handlers_data.items(): one entry merged into h
merge_entry(h, name, value) ==
    LET res == validate_handler_config(name, value)
    IN IF res = <<>> THEN h
       ELSE IF name \in DOMAIN h
            THEN LET hc == res[1]
                     merged == IF hc.priority = PyNone
                               THEN [hc EXCEPT !.priority = h[name].priority]
                               ELSE hc
                 IN [h EXCEPT ![name] = merged]
            ELSE h  \* unknown handler: a warning, nothing stored

RECURSIVE merge_handlers(_, _)
merge_handlers(h, items) ==
    IF items = <<>> THEN h
    ELSE merge_handlers(merge_entry(h, Head(items).name, Head(items).value),
                        Tail(items))

\* load_config_from_dict(data)
load_config_from_dict(d) ==
    LET c0 == ConfigDefault
        version == IF d.general.t # "absent" /\ d.general.t = "dict"
                      /\ d.general.version # Absent
                      /\ isinstance_str(d.general.version)
                   THEN StrOf(d.general.version.v) ELSE c0.version
        hs == IF d.handlers.t # "absent" /\ d.handlers.t = "dict"
              THEN merge_handlers(c0.handlers, d.handlers.items)
              ELSE c0.handlers
    IN [version |-> version, handlers |-> hs]

\* what opening and parsing the configuration file can meet: the file parses
\* ("ok"), it cannot be opened or read, it is no TOML, or its bytes are no
\* UTF-8 (tomllib.load decodes them before parsing)
FileOutcomes == {"ok", "OSError", "TOMLDecodeError", "UnicodeDecodeError"}

\* the exception classes that are ValueError or derive from it
IsValueError(e) == e \in {"ValueError", "TOMLDecodeError", "UnicodeDecodeError"}

\* parse_toml_file leaving OSError as it is
parse_toml_file_keeps_oserror(f, d) ==
    CASE f = "ok" -> [raised |-> "none", value |-> d]
      [] f = "TOMLDecodeError" -> [raised |-> "ValueError", value |-> d]
      [] OTHER -> [raised |-> f, value |-> d]

\* parse_toml_file(path): the parsed document, or the exception raised
parse_toml_file(f, d) ==
    CASE f = "ok" -> [raised |-> "none", value |-> d]
      [] f = "TOMLDecodeError" -> [raised |-> "ValueError", value |-> d]
      [] f = "OSError" -> [raised |-> "ValueError", value |-> d]
      [] OTHER -> [raised |-> f, value |-> d]  \* no except clause takes it

\* load_config(path): f is "none" when no configuration file is found
load_config(f, d) ==
    IF f = "none" THEN [raised |-> "none", config |-> ConfigDefault]
    ELSE LET parsed == parse_toml_file(f, d)
         IN IF parsed.raised = "none"
            THEN [raised |-> "none",
                  config |-> load_config_from_dict(parsed.value)]
            ELSE IF IsValueError(parsed.raised)
            THEN [raised |-> "none", config |-> ConfigDefault]
            ELSE [raised |-> parsed.raised, config |-> ConfigDefault]

(***************************************************************************)
(* The registry (handlers/__init__.py).                                    *)
(***************************************************************************)
\* handler_map, in insertion order: <<name, class>>
handler_map ==
    << <<"directory", "DirectoryHandler">>, <<"archive", "ArchiveHandler">>,
       <<"image", "ImageHandler">>, <<"pdf", "PDFHandler">>,
       <<"binary", "BinaryHandler">>, <<"media", "MediaHandler">>,
       <<"json", "JsonHandler">>, <<"xml", "XMLHandler">>,
       <<"csv", "CSVHandler">>, <<"markdown", "MarkdownHandler">>,
       <<"yaml", "YAMLHandler">>, <<"default", "DefaultFileHandler">> >>

Names == {handler_map[i][1] : i \in DOMAIN handler_map}
Classes == {handler_map[i][2] : i \in DOMAIN handler_map}

\* DirectoryHandler.priority()
DirectoryHandler_priority == 100
\* BinaryHandler.priority()
BinaryHandler_priority == 60
\* priority() of the handler classes defined in the other handler modules
OtherHandler_priority(cls) ==
    CASE cls = "ArchiveHandler" -> 80
      [] cls = "ImageHandler" -> 65
      [] cls = "PDFHandler" -> 60
      [] cls = "MediaHandler" -> 55
      [] cls = "JsonHandler" -> 50
      [] cls = "XMLHandler" -> 45
      [] cls = "CSVHandler" -> 40
      [] cls = "MarkdownHandler" -> 35
      [] cls = "YAMLHandler" -> 30
      [] cls = "DefaultFileHandler" -> 0

\* priority() with JsonHandler at 90, above ArchiveHandler
class_priority_json_first(cls) ==
    CASE cls = "DirectoryHandler" -> DirectoryHandler_priority
      [] cls = "BinaryHandler" -> BinaryHandler_priority
      [] cls = "JsonHandler" -> 90
      [] OTHER -> OtherHandler_priority(cls)

\* handler_class.priority()
class_priority(cls) ==
    CASE cls = "DirectoryHandler" -> DirectoryHandler_priority
      [] cls = "BinaryHandler" -> BinaryHandler_priority
      [] OTHER -> OtherHandler_priority(cls)

UpperCase == "ABCDEFGHIJKLMNOPQRSTUVWXYZ"
LowerCase == "abcdefghijklmnopqrstuvwxyz"

\* one character of str.lower()
lower_char(c) ==
    IF \E i \in 1..Len(UpperCase) : SubSeq(UpperCase, i, i) = c
    THEN LET i == CHOOSE j \in 1..Len(UpperCase) : SubSeq(UpperCase, j, j) = c
         IN SubSeq(LowerCase, i, i)
    ELSE c

\* s.lower()
RECURSIVE str_lower(_)
str_lower(s) ==
    IF Len(s) = 0 THEN ""
    ELSE lower_char(SubSeq(s, 1, 1)) \o str_lower(SubSeq(s, 2, Len(s)))

\* s.replace(old, new): every occurrence, left to right, not overlapping
RECURSIVE str_replace(_, _, _)
str_replace(s, old, new) ==
    IF Len(s) < Len(old) THEN s
    ELSE IF SubSeq(s, 1, Len(old)) = old
         THEN new \o str_replace(SubSeq(s, Len(old) + 1, Len(s)), old, new)
         ELSE SubSeq(s, 1, 1) \o str_replace(SubSeq(s, 2, Len(s)), old, new)

\* derived_name without the special case of DefaultFileHandler
derived_name_plain(cls) == str_lower(str_replace(cls, "Handler", ""))

\* the handler name get_priority derives from a class name
derived_name(cls) ==
    LET handler_name == str_lower(str_replace(cls, "Handler", ""))
    IN IF handler_name = "defaultfile" THEN "default" ELSE handler_name

\* derived_name, computed once per class
derived_names == [cls \in Classes |-> derived_name(cls)]

\* get_priority without the test for an unset priority
get_priority_reads_none(cfg, cls) ==
    LET handler_name == derived_names[cls]
    IN IF handler_name \in DOMAIN cfg.handlers
       THEN cfg.handlers[handler_name].priority.v
       ELSE class_priority(cls)

\* get_priority(handler_class), the sort key inside get_handlers
get_priority(cfg, cls) ==
    LET handler_name == derived_names[cls]
    IN IF handler_name \in DOMAIN cfg.handlers
          /\ cfg.handlers[handler_name].priority # PyNone
       THEN cfg.handlers[handler_name].priority.v
       ELSE class_priority(cls)

\* the filter loop dropping the handlers that have no entry
RECURSIVE enabled_handlers_needs_entry(_, _)
enabled_handlers_needs_entry(cfg, i) ==
    IF i > Len(handler_map) THEN <<>>
    ELSE LET name == handler_map[i][1]
             keep == name \in DOMAIN cfg.handlers
                     /\ truthy(cfg.handlers[name].enabled)
         IN (IF keep THEN <<handler_map[i][2]>> ELSE <<>>)
            \o enabled_handlers_needs_entry(cfg, i + 1)

\* the filter loop of get_handlers: the classes of the enabled handlers
RECURSIVE enabled_handlers(_, _)
enabled_handlers(cfg, i) ==
    IF i > Len(handler_map) THEN <<>>
    ELSE LET name == handler_map[i][1]
             keep == name \notin DOMAIN cfg.handlers
                     \/ truthy(cfg.handlers[name].enabled)
         IN (IF keep THEN <<handler_map[i][2]>> ELSE <<>>)
            \o enabled_handlers(cfg, i + 1)

\* x put in front of the items whose key equals its own: the order an
\* ascending sort followed by a reversal gives
sorted_insert_unstable(keys, sorted, x) ==
    LET before == {i \in 1..Len(sorted) : keys[sorted[i]] > keys[x]}
        n == Cardinality(before)
    IN SubSeq(sorted, 1, n) \o <<x>> \o SubSeq(sorted, n + 1, Len(sorted))

\* x put into a list sorted by descending key, behind the items whose key
\* is not smaller than its own
sorted_insert(keys, sorted, x) ==
    LET before == {i \in 1..Len(sorted) : keys[sorted[i]] >= keys[x]}
        n == Cardinality(before)
    IN SubSeq(sorted, 1, n) \o <<x>> \o SubSeq(sorted, n + 1, Len(sorted))

\* the items of seq put one by one into acc
RECURSIVE sorted_reverse_from(_, _, _)
sorted_reverse_from(keys, seq, acc) ==
    IF seq = <<>> THEN acc
    ELSE sorted_reverse_from(keys, Tail(seq), sorted_insert(keys, acc, Head(seq)))

\* sorted(seq, key=get_priority, reverse=True): the key of every item is
\* computed once, and the sort is stable
sorted_reverse(cfg, seq) ==
    LET keys == [cls \in {seq[i] : i \in DOMAIN seq} |-> get_priority(cfg, cls)]
    IN sorted_reverse_from(keys, seq, <<>>)

\* the Config a call get_handlers(None) works on
ConfigNone == [version |-> "None", handlers |-> <<>>]

\* get_handlers(config)
get_handlers(cfg) ==
    LET c == IF cfg = ConfigNone THEN ConfigDefault ELSE cfg
    IN sorted_reverse(c, enabled_handlers(c, 1))

(***************************************************************************)
(* Inputs: the parsed documents and the directly constructed entries.      *)
(***************************************************************************)
\* values a document gives the three fields of a handler table
RawEnabled == {Absent, PyBool(TRUE), PyBool(FALSE), PyStr(1)}
RawPriority == {Absent, PyInt(150), PyBool(TRUE), PyStr(2), PyFloat(1)}
RawOptions == {Absent, PyDict(1), PyStr(3)}

\* something that is no dict
NotADict == [t |-> "str", enabled |-> Absent, priority |-> Absent,
             options |-> Absent]

\* a value of data["handlers"][name]: a table, or something that is no dict
RawEntry ==
    [t : {"dict"}, enabled : RawEnabled, priority : RawPriority,
     options : RawOptions]
    \cup {NotADict}

\* the values given to a key that names no handler
UnknownEntry ==
    {NotADict,
     [t |-> "dict", enabled |-> Absent, priority |-> Absent, options |-> Absent],
     [t |-> "dict", enabled |-> PyBool(FALSE), priority |-> PyInt(150),
      options |-> PyDict(1)]}

\* the keys of data["handlers"] the documents use, in document order
LoadNames == <<"json", "default", "unknown">>

\* the values the documents give a key
EntriesOf(name) == IF name \in Names THEN RawEntry ELSE UnknownEntry

RECURSIVE ItemLists(_, _)
\* the lists of at most n items over the keys LoadNames[i..], keys in order
ItemLists(i, n) ==
    IF i > Len(LoadNames) \/ n = 0 THEN {<<>>}
    ELSE ItemLists(i + 1, n)
         \cup {<<[name |-> LoadNames[i], value |-> e]>> \o rest :
                 e \in EntriesOf(LoadNames[i]), rest \in ItemLists(i + 1, n - 1)}

\* data["general"]: missing, a table with a version string, or a table
\* whose version is no string
RawGeneral ==
    {[t |-> "absent", version |-> Absent],
     [t |-> "dict", version |-> PyStr(4)],
     [t |-> "dict", version |-> PyInt(2)]}

\* data["handlers"]: missing, no dict, or a table of handler tables
RawHandlers ==
    {[t |-> "absent", items |-> <<>>], [t |-> "str", items |-> <<>>]}
    \cup [t : {"dict"}, items : ItemLists(1, MaxEntries)]

\* the documents: every [handlers] value, and every [general] value beside
\* a [handlers] value without items
Documents ==
    [general : {[t |-> "absent", version |-> Absent]}, handlers : RawHandlers]
    \cup [general : RawGeneral,
          handlers : {h \in RawHandlers : h.items = <<>>}]

\* no document has been loaded
NoData == [general |-> [t |-> "none", version |-> Absent],
           handlers |-> [t |-> "none", items |-> <<>>]]

\* Config(): no handler has an entry
ConfigEmpty == [version |-> DefaultVersion, handlers |-> <<>>]

\* priorities given to directly constructed entries
PlacePriorities == {PyNone, PyInt(0), PyInt(150)}

\* the HandlerConfig objects assigned directly
PlacedConfigs ==
    {HandlerConfig2(PyBool(TRUE), p) : p \in PlacePriorities}
    \cup {HandlerConfig2(PyBool(FALSE), PyNone)}

(***************************************************************************)
(* The configuration and registry run.                                     *)
(***************************************************************************)
NoPath == [exists |-> FALSE, is_dir |-> FALSE, readable |-> FALSE,
           suffix |-> ".txt", content |-> <<>>, sniff |-> {}]

\* the processes BinaryHandler.handle starts: the hexdump run whose lines it
\* counts, the hexdump run feeding the pager, the hexdump run whose output
\* it prints, and the pager
Producers == {"count", "hexdump", "direct"}
Procs == Producers \cup {"less"}

\* a process that was not started: st its state, out and err what it has
\* still to write to stdout and stderr, obuf and ebuf what its stdout and
\* stderr pipes hold, hfd the handler's end of the stdout pipe, how it
\* ended, its return code, and the status it exits with when left alone
NoProc ==
    [st |-> "none", out |-> 0, err |-> 0, obuf |-> 0, ebuf |-> 0,
     hfd |-> "none", how |-> "none", rc |-> 0, exit |-> 0]
NoProcs == [p \in Procs |-> NoProc]
NoScript == [out |-> 0, err |-> 0, rc |-> 0]

\* BinaryHandler.handle is not running
PIdle ==
    /\ proc = NoProcs
    /\ nlines = 0
    /\ script = NoScript
    /\ pending = "none"

\* the command is not run
MIdle ==
    /\ mpc = "idle"
    /\ path = NoPath
    /\ missing = {}
    /\ status = "ok"
    /\ stdout = <<>>
    /\ stderr = <<>>
    /\ spawned = <<>>
    /\ evaluated = <<>>
    /\ invoked = <<>>
    /\ result = "none"
    /\ tty = FALSE
    /\ height = 1
    /\ fileout = "none"
    /\ pagerin = <<>>
    /\ nread = 0
    /\ PIdle
    /\ ret = "none"

RInit ==
    /\ rpc = "start"
    /\ data = NoData
    /\ config = ConfigNone
    /\ placed = {}
    /\ handlers = <<>>
    /\ file = "unread"
    /\ MIdle

\* config = load_config_from_dict(data)
LoadConfigFromDict ==
    /\ rpc = "start"
    /\ \E d \in Documents :
         /\ data' = d
         /\ config' = load_config_from_dict(d)
    /\ rpc' = "loaded"
    /\ UNCHANGED <<placed, handlers, file, mvars>>

\* the documents of the configuration files that parse
FileDocuments == {d \in Documents : d.handlers.items = <<>>}

\* config = load_config(path): no file is found, or the file is met in one
\* of its states
LoadConfig ==
    /\ rpc = "start"
    /\ \E f \in FileOutcomes \cup {"none"} :
         \E d \in IF f = "ok" THEN FileDocuments ELSE {NoData} :
           LET r == load_config(f, d)
           IN /\ file' = f
              /\ data' = d
              /\ config' = r.config
              /\ rpc' = IF r.raised = "none" THEN "loaded" ELSE "raised"
    /\ UNCHANGED <<placed, handlers, mvars>>

\* config = Config.default()
ConstructDefault ==
    /\ rpc = "start"
    /\ config' = ConfigDefault
    /\ rpc' = "built"
    /\ UNCHANGED <<data, placed, handlers, file, mvars>>

\* config = Config()
ConstructEmpty ==
    /\ rpc = "start"
    /\ config' = ConfigEmpty
    /\ rpc' = "built"
    /\ UNCHANGED <<data, placed, handlers, file, mvars>>

\* h with h[name] = hc assigned
dict_set(h, name, hc) ==
    [n \in DOMAIN h \cup {name} |-> IF n = name THEN hc ELSE h[n]]

\* config.handlers[name] = HandlerConfig(...)
PlaceHandlerConfig ==
    /\ rpc = "built"
    /\ Cardinality(placed) < MaxPlace
    /\ \E name \in Names \ placed, hc \in PlacedConfigs :
         /\ config' = [config EXCEPT !.handlers = dict_set(@, name, hc)]
         /\ placed' = placed \cup {name}
    /\ UNCHANGED <<rpc, data, handlers, file, mvars>>

\* handlers = get_handlers(config)
GetHandlers ==
    /\ rpc \in {"start", "loaded", "built"}
    /\ handlers' = get_handlers(config)
    /\ rpc' = "resolved"
    /\ UNCHANGED <<data, config, placed, file, mvars>>

RNext ==
    \/ LoadConfigFromDict
    \/ LoadConfig
    \/ ConstructDefault
    \/ ConstructEmpty
    \/ PlaceHandlerConfig
    \/ GetHandlers

SpecRegistry == RInit /\ [][RNext]_vars

(***************************************************************************)
(* The command (cli.py) and the directory handler (handlers/directory.py). *)
(***************************************************************************)
\* the threshold main compares the line count with
LINE_THRESHOLD == 2

\* the external commands main and DirectoryHandler.handle run
Commands == {"ls", "cat", "less"}

\* the messages the program prints itself
Diagnostics ==
    {"Error: Path not found", "Error counting lines", "Error: CalledProcessError"}

\* the bytes the files are made of: the line terminator, a NUL, the two
\* braces, a letter, and a byte that never occurs in UTF-8 text
LF == 10
NUL == 0
LBRACE == 123
RBRACE == 125
LETTER == 65
HIGH == 255

\* the longest file content, in bytes
MaxLen == 3

\* the rows a terminal can have
MaxHeight == 3

RECURSIVE SeqsOver(_, _)
\* the sequences of at most n elements of S
SeqsOver(S, n) ==
    IF n = 0 THEN {<<>>}
    ELSE LET shorter == SeqsOver(S, n - 1)
         IN shorter \cup {<<x>> \o q : x \in S, q \in {r \in shorter : Len(r) = n - 1}}

\* the line a binary file object yields next: the bytes up to and including
\* the first line terminator, or all of them when there is none
readline(bytes) ==
    IF \E i \in DOMAIN bytes : bytes[i] = LF
    THEN SubSeq(bytes, 1, CHOOSE i \in DOMAIN bytes :
                             /\ bytes[i] = LF
                             /\ \A j \in 1..(i - 1) : bytes[j] # LF)
    ELSE bytes

RECURSIVE count_terminated(_)
\* a count of the lines that end in a line terminator only
count_terminated(bytes) ==
    IF bytes = <<>> THEN 0
    ELSE LET line == readline(bytes)
             rest == SubSeq(bytes, Len(line) + 1, Len(bytes))
         IN (IF line[Len(line)] = LF THEN 1 ELSE 0) + count_terminated(rest)

RECURSIVE sum_lines(_)
\* sum(1 for _ in f): one for every line the file object yields
sum_lines(bytes) ==
    IF bytes = <<>> THEN 0
    ELSE LET line == readline(bytes)
         IN 1 + sum_lines(SubSeq(bytes, Len(line) + 1, Len(bytes)))

\* file_path.open(mode): the exception raised, "none" when the file opens
path_open(p) ==
    IF ~p.exists THEN "FileNotFoundError"
    ELSE IF p.is_dir THEN "IsADirectoryError"
    ELSE IF ~p.readable THEN "PermissionError"
    ELSE "none"

\* count_lines without its except clause
count_lines_unguarded(p) ==
    IF path_open(p) = "none"
    THEN [raised |-> "none", ret |-> sum_lines(p.content), out |-> <<>>]
    ELSE [raised |-> path_open(p), ret |-> 0, out |-> <<>>]

\* count_lines(file_path): the value returned and what print() wrote to
\* standard output; it raises nothing
count_lines(p) ==
    IF path_open(p) = "none"
    THEN [raised |-> "none", ret |-> sum_lines(p.content), out |-> <<>>]
    ELSE [raised |-> "none", ret |-> 0, out |-> <<"Error counting lines">>]

\* subprocess.run(cmd, check=check): the exception raised, "none" when the
\* call returns
subprocess_run(cmd, t, st, check) ==
    IF cmd \notin t THEN "FileNotFoundError"
    ELSE IF check /\ st # "ok" THEN "CalledProcessError"
    ELSE "none"

\* the body of main for an existing path
main_existing(p, t, st) ==
    LET counted == IF p.is_dir
                   THEN [raised |-> "none", ret |-> 0, out |-> <<>>]
                   ELSE count_lines(p)
        cmd == IF p.is_dir THEN "ls"
               ELSE IF counted.ret <= LINE_THRESHOLD THEN "cat" ELSE "less"
        raised == IF counted.raised # "none" THEN counted.raised
                  ELSE subprocess_run(cmd, t, st, FALSE)
    IN CASE raised = "CalledProcessError" ->
              [result |-> "1",
               stdout |-> counted.out \o <<"Error: CalledProcessError">>,
               stderr |-> <<>>, spawned |-> <<cmd>>]
         [] raised # "none" ->
              \* not caught by except CalledProcessError
              [result |-> "raise", stdout |-> counted.out, stderr |-> <<>>,
               spawned |-> <<>>]
         [] OTHER ->
              [result |-> "0", stdout |-> counted.out, stderr |-> <<>>,
               spawned |-> <<cmd>>]

\* main without the test that the path exists
main_no_exists_check(p, t, st) == main_existing(p, t, st)

\* main(): how the call ends, what it printed and the commands it ran
main(p, t, st) ==
    IF ~p.exists
    THEN [result |-> "1", stdout |-> <<"Error: Path not found">>,
          stderr |-> <<>>, spawned |-> <<>>]
    ELSE main_existing(p, t, st)

\* what a command that ran wrote: the content on standard output when it
\* succeeded, its own message on the error stream when it failed
command_output(ran, st) ==
    IF ran = <<>> THEN [stdout |-> <<>>, stderr |-> <<>>]
    ELSE IF st = "ok" THEN [stdout |-> <<"content">>, stderr |-> <<>>]
    ELSE [stdout |-> <<>>, stderr |-> <<"command failed">>]

\* DirectoryHandler.can_handle(path)
DirectoryHandler_can_handle(p) == p.is_dir

\* DirectoryHandler.handle(path)
DirectoryHandler_handle(p, t, st) ==
    LET raised == subprocess_run("ls", t, st, FALSE)
    IN [result |-> IF raised = "none" THEN "return" ELSE "raise",
        spawned |-> IF raised = "none" THEN <<"ls">> ELSE <<>>]

(***************************************************************************)
(* BinaryHandler.can_handle (handlers/binary.py).                          *)
(***************************************************************************)
\* the size above which BinaryHandler leaves a file alone, in bytes
MAX_BINARY_SIZE_BYTES == 2

\* the bytes _is_binary_content reads
sample_size == 1

\* path.stat().st_size: the length of a regular file; a directory has the
\* size of its blocks, which is not zero
st_size(p) == IF p.is_dir THEN MaxLen + 1 ELSE Len(p.content)

\* how `file --mime-encoding -b` ends: the encoding it prints, or the
\* exception subprocess.run raises (OSError: the command cannot be executed)
FileCmdOutcomes ==
    {"binary", "unknown-8bit", "us-ascii", "utf-8", "iso-8859-1", "utf-16le",
     "CalledProcessError", "TimeoutExpired", "UnicodeDecodeError", "OSError"}

\* s.startswith(prefix)
startswith(s, prefix) ==
    Len(s) >= Len(prefix) /\ SubSeq(s, 1, Len(prefix)) = prefix

\* _is_binary_content looking for a NUL byte in the whole file
is_binary_content_whole_file(p) ==
    path_open(p) = "none" /\ \E i \in DOMAIN p.content : p.content[i] = NUL

\* the bytes _is_binary_content reads of the file: f.read(sample_size)
is_binary_content_read(p) ==
    IF path_open(p) # "none" THEN 0
    ELSE IF Len(p.content) < sample_size THEN Len(p.content)
    ELSE sample_size

\* BinaryHandler._is_binary_content(file_path)
BinaryHandler_is_binary_content(p) ==
    IF path_open(p) # "none" THEN FALSE
    ELSE LET n == IF Len(p.content) < sample_size THEN Len(p.content)
                  ELSE sample_size
             sample == SubSeq(p.content, 1, n)
         IN IF sample = <<>> THEN FALSE
            ELSE \E i \in DOMAIN sample : sample[i] = NUL

\* BinaryHandler.can_handle(path): t the installed commands, fo how the
\* file command ends
BinaryHandler_can_handle(p, t, fo) ==
    LET no == [raised |-> "none", ret |-> FALSE, spawned |-> <<>>, read |-> 0]
        content_check(ran) ==
            [raised |-> "none", ret |-> BinaryHandler_is_binary_content(p),
             spawned |-> ran, read |-> is_binary_content_read(p)]
    IN IF ~(p.exists /\ ~p.is_dir) THEN no
       ELSE IF st_size(p) > MAX_BINARY_SIZE_BYTES THEN no
       ELSE IF st_size(p) = 0 THEN no
       ELSE IF "file" \in t
       THEN CASE fo = "binary" \/ startswith(fo, "unknown-") ->
                   [raised |-> "none", ret |-> TRUE, spawned |-> <<"file">>,
                    read |-> 0]
              [] fo \in {"us-ascii", "utf-8", "iso-8859-1"} ->
                   content_check(<<"file">>)
              [] fo \in {"CalledProcessError", "TimeoutExpired",
                         "UnicodeDecodeError"} ->
                   content_check(<<"file">>)
              [] fo = "OSError" ->
                   \* no except clause takes it
                   [raised |-> "OSError", ret |-> FALSE, spawned |-> <<>>,
                    read |-> 0]
              [] OTHER ->
                   [raised |-> "none", ret |-> FALSE, spawned |-> <<"file">>,
                    read |-> 0]
       ELSE content_check(<<>>)

(***************************************************************************)
(* The predicates of the registered handlers and the runs of the command.  *)
(***************************************************************************)
\* can_handle of the handler classes defined in the other handler modules:
\* the fallback handler takes any existing path, a content handler the files
\* its check recognises
OtherHandler_can_handle(cls, p) ==
    IF cls = "DefaultFileHandler" THEN p.exists
    ELSE p.exists /\ ~p.is_dir /\ derived_names[cls] \in p.sniff

\* handler_class.can_handle(path), where the file command is not installed
can_handle(cls, p) ==
    IF cls = "DirectoryHandler" THEN DirectoryHandler_can_handle(p)
    ELSE IF cls = "BinaryHandler"
    THEN BinaryHandler_can_handle(p, Commands, "none").ret
    ELSE OtherHandler_can_handle(cls, p)

\* a regular file
File(readable, suffix, content, sniff) ==
    [exists |-> TRUE, is_dir |-> FALSE, readable |-> readable,
     suffix |-> suffix, content |-> content, sniff |-> sniff]

\* a directory
Directory(suffix) ==
    [exists |-> TRUE, is_dir |-> TRUE, readable |-> TRUE, suffix |-> suffix,
     content |-> <<>>, sniff |-> {}]

\* the target paths of the runs of the command: a missing path, a
\* directory, text files of every length, an empty .json file, a file with
\* a NUL byte, a file the JSON handler recognises and a file that cannot be
\* read
Paths ==
    {NoPath, Directory(".txt")}
    \cup {File(TRUE, ".txt", c, {}) : c \in SeqsOver({LF, LETTER}, MaxLen)}
    \cup {File(TRUE, ".json", <<>>, {}),
          File(TRUE, ".txt", <<NUL>>, {}),
          File(TRUE, ".json", <<LBRACE, RBRACE>>, {"json"}),
          File(FALSE, ".txt", <<LETTER, LF>>, {})}

\* a document whose [handlers] table holds the one item given
OneItem(name, enabled, priority) ==
    [general |-> [t |-> "absent", version |-> Absent],
     handlers |-> [t |-> "dict", items |->
        <<[name |-> name,
           value |-> [t |-> "dict", enabled |-> enabled,
                      priority |-> priority, options |-> Absent]]>>]]

\* the user's configuration documents of the runs of the command
MainDocuments ==
    {[general |-> [t |-> "absent", version |-> Absent],
      handlers |-> [t |-> "absent", items |-> <<>>]],
     OneItem("default", PyBool(FALSE), Absent),
     OneItem("json", PyBool(FALSE), Absent),
     OneItem("json", Absent, PyInt(150))}

\* the command is started: some configuration document, target path,
\* installed commands and command outcome
MInit ==
    /\ rpc = "start"
    /\ data \in MainDocuments
    /\ config = ConfigNone
    /\ placed = {}
    /\ handlers = <<>>
    /\ file = "unread"
    /\ mpc = "start"
    /\ path \in Paths
    /\ missing \in SUBSET Commands
    /\ status \in {"ok", "fail"}
    /\ stdout = <<>>
    /\ stderr = <<>>
    /\ spawned = <<>>
    /\ evaluated = <<>>
    /\ invoked = <<>>
    /\ result = "none"
    /\ tty \in BOOLEAN
    /\ height \in 1..MaxHeight
    /\ fileout = "none"
    /\ pagerin = <<>>
    /\ nread = 0
    /\ PIdle
    /\ ret = "none"

\* sys.exit(main())
Main ==
    /\ mpc = "start"
    /\ LET r == main(path, Commands \ missing, status)
           c == command_output(r.spawned, status)
       IN /\ result' = r.result
          /\ stdout' = r.stdout \o c.stdout
          /\ stderr' = r.stderr \o c.stderr
          /\ spawned' = r.spawned
    /\ mpc' = "done"
    /\ UNCHANGED <<envvars, evaluated, invoked, pagerin, nread, ret, pvars, rvars>>

\* DirectoryHandler.handle(path), called on its own
DirectoryHandlerHandle ==
    /\ mpc = "start"
    /\ DirectoryHandler_can_handle(path)
    /\ LET r == DirectoryHandler_handle(path, Commands \ missing, status)
           c == command_output(r.spawned, status)
       IN /\ result' = r.result
          /\ stdout' = c.stdout
          /\ stderr' = c.stderr
          /\ spawned' = r.spawned
    /\ mpc' = "handled"
    /\ UNCHANGED <<envvars, evaluated, invoked, pagerin, nread, ret, pvars, rvars>>

\* count_lines(path), called on its own
CountLines ==
    /\ mpc = "start"
    /\ LET r == count_lines(path)
       IN /\ result' = IF r.raised = "none" THEN "return" ELSE "raise"
          /\ ret' = r.ret
          /\ stdout' = r.out
    /\ mpc' = "counted"
    /\ UNCHANGED <<envvars, stderr, spawned, evaluated, invoked, pagerin, nread,
                   pvars, rvars>>

MNext ==
    \/ Main
    \/ DirectoryHandlerHandle
    \/ CountLines

SpecMain == MInit /\ [][MNext]_vars

(***************************************************************************)
(* BinaryHandler.handle: hexdump -C, counted and then shown.               *)
(***************************************************************************)
\* the character of a hexadecimal digit
hexdigit(n) == IF n < 10 THEN 48 + n ELSE 87 + n

\* the byte as hexdump's text column shows it
printable(b) == IF b >= 32 /\ b <= 126 THEN b ELSE 46

\* the row hexdump -C prints for the byte b at offset i (the rows are one
\* byte wide here): offset, the byte in hexadecimal, the byte as text
hexdump_row(i, b) ==
    <<hexdigit(i), 32, hexdigit(b \div 16), hexdigit(b % 16), 32,
      124, printable(b), 124, LF>>

RECURSIVE hexdump_rows(_, _)
\* the rows of the bytes from offset i on
hexdump_rows(bytes, i) ==
    IF i >= Len(bytes) THEN <<>>
    ELSE hexdump_row(i, bytes[i + 1]) \o hexdump_rows(bytes, i + 1)

\* the output of hexdump -C: a row per byte and a last row with the length;
\* nothing for an empty file
hexdump_C(bytes) ==
    IF bytes = <<>> THEN <<>>
    ELSE hexdump_rows(bytes, 0) \o <<hexdigit(Len(bytes)), LF>>

\* how a hexdump process ends: "ok" with all its output and status 0,
\* "fail" with no output and a non-zero status, "partial" with a non-zero
\* status after the first row was written (an error while reading)
ProducerOutcomes == {"ok", "fail", "partial"}

\* a run of the command hexdump -C path: its output and exit status
hexdump_run(p, st) ==
    IF path_open(p) # "none" \/ st = "fail" THEN [out |-> <<>>, rc |-> 1]
    ELSE IF st = "partial"
    THEN [out |-> readline(hexdump_C(p.content)), rc |-> 1]
    ELSE [out |-> hexdump_C(p.content), rc |-> 0]

\* bytes.decode(errors="ignore"): the bytes that are no UTF-8 are dropped
decode_ignore(bytes) == SelectSeq(bytes, LAMBDA b : b < 128)

\* what print(text, end="") writes to standard output
print_text(text) == text

\* BinaryHandler.handle(path): t the installed commands, isatty and rows the
\* terminal behind standard output, st how the hexdump processes end
BinaryHandler_handle(p, t, isatty, rows, st) ==
    IF "hexdump" \notin t
    THEN \* logged, nothing shown
         [result |-> "return", stdout |-> <<>>,
          stderr |-> <<"hexdump not found">>, spawned |-> <<>>,
          pagerin |-> <<>>]
    ELSE LET run == hexdump_run(p, st)
             \* the lines of the first run; os.get_terminal_size() fails
             \* without a terminal and the height is then infinite
             line_count == sum_lines(run.out)
             over == isatty /\ line_count > rows
         IN IF over /\ "less" \in t
            THEN \* the second run's output is the pager's input
                 [result |-> "return", stdout |-> <<>>, stderr |-> <<>>,
                  spawned |-> <<"hexdump", "hexdump", "less">>,
                  pagerin |-> run.out]
            ELSE IF run.rc = 0
            THEN [result |-> "return",
                  stdout |-> print_text(decode_ignore(run.out)),
                  stderr |-> <<>>, spawned |-> <<"hexdump", "hexdump">>,
                  pagerin |-> <<>>]
            ELSE \* the output of the failed run is not printed
                 [result |-> "return", stdout |-> <<>>,
                  stderr |-> <<"hexdump exited with code">>,
                  spawned |-> <<"hexdump", "hexdump">>,
                  pagerin |-> <<>>]

\* the commands BinaryHandler.handle looks for
BinaryCommands == {"hexdump", "less"}

\* the paths handle is given: files of every content, read or not, a
\* directory and a missing path
BinaryPaths ==
    {NoPath, Directory(".bin"), File(FALSE, ".bin", <<NUL>>, {})}
    \cup {File(TRUE, ".bin", c, {}) : c \in SeqsOver({NUL, LETTER, HIGH}, MaxLen)}

\* BinaryHandler.handle is about to be called
BInit ==
    /\ rpc = "start"
    /\ data = NoData
    /\ config = ConfigNone
    /\ placed = {}
    /\ handlers = <<>>
    /\ file = "unread"
    /\ mpc = "start"
    /\ path \in BinaryPaths
    /\ missing \in SUBSET BinaryCommands
    /\ status \in ProducerOutcomes
    /\ stdout = <<>>
    /\ stderr = <<>>
    /\ spawned = <<>>
    /\ evaluated = <<>>
    /\ invoked = <<>>
    /\ result = "none"
    /\ tty \in BOOLEAN
    /\ height \in 1..MaxHeight
    /\ fileout = "none"
    /\ pagerin = <<>>
    /\ nread = 0
    /\ PIdle
    /\ ret = "none"

\* BinaryHandler.handle(path)
BinaryHandlerHandle ==
    /\ mpc = "start"
    /\ LET r == BinaryHandler_handle(path, BinaryCommands \ missing, tty,
                                     height, status)
       IN /\ result' = r.result
          /\ stdout' = r.stdout
          /\ stderr' = r.stderr
          /\ spawned' = r.spawned
          /\ pagerin' = r.pagerin
    /\ mpc' = "handled"
    /\ invoked' = <<"BinaryHandler">>
    /\ UNCHANGED <<envvars, evaluated, nread, ret, pvars, rvars>>

BNext == BinaryHandlerHandle

SpecBinary == BInit /\ [][BNext]_vars

(***************************************************************************)
(* The predicates and count_lines, each called on its own.                 *)
(***************************************************************************)
\* the bytes is_json_file reads of a file without the .json suffix
JSON_CONTENT_CHECK_BYTES == 2

\* bytes.decode("utf-8") succeeds
is_utf8(bytes) == \A i \in DOMAIN bytes : bytes[i] < 128

\* the characters str.strip() removes, of those the files hold
Whitespace == {LF}

RECURSIVE lstrip(_)
lstrip(text) ==
    IF text # <<>> /\ Head(text) \in Whitespace THEN lstrip(Tail(text))
    ELSE text

RECURSIVE rstrip(_)
rstrip(text) ==
    IF text # <<>> /\ text[Len(text)] \in Whitespace
    THEN rstrip(SubSeq(text, 1, Len(text) - 1))
    ELSE text

\* text.strip()
strip(text) == rstrip(lstrip(text))

\* json.loads(text) succeeds: of the texts over the bytes of the files only
\* an empty object is JSON, with white space wherever it likes
json_loads_ok(text) ==
    SelectSeq(text, LAMBDA b : b \notin Whitespace) = <<LBRACE, RBRACE>>

\* is_json_file(file_path): the value returned, or the exception raised
is_json_file(p) ==
    LET yes(n) == [raised |-> "none", ret |-> TRUE, read |-> n]
        no(n) == [raised |-> "none", ret |-> FALSE, read |-> n]
    IN IF str_lower(p.suffix) = ".json"
       THEN IF ~p.exists
            THEN \* file_path.stat() is outside every try
                 [raised |-> "FileNotFoundError", ret |-> FALSE, read |-> 0]
            ELSE IF st_size(p) = 0 THEN yes(0)
            ELSE IF path_open(p) # "none" THEN no(0)
            ELSE \* json.load(f) reads the file to its end
                 IF is_utf8(p.content) /\ json_loads_ok(p.content)
                 THEN yes(Len(p.content))
                 ELSE no(Len(p.content))
       ELSE IF path_open(p) # "none" THEN no(0)
       ELSE LET n == IF Len(p.content) < JSON_CONTENT_CHECK_BYTES
                     THEN Len(p.content) ELSE JSON_CONTENT_CHECK_BYTES
                content_start == SubSeq(p.content, 1, n)
            IN IF ~is_utf8(content_start) THEN no(n)
               ELSE LET content_text == strip(content_start)
                    IN IF content_text = <<>> THEN no(n)
                       ELSE IF Head(content_text) = LBRACE
                               /\ json_loads_ok(content_text)
                       THEN yes(n)
                       ELSE no(n)

\* the suffixes of the paths
Suffixes == {".json", ".JSON", ".txt"}

\* a path that does not exist
Missing(suffix) == [NoPath EXCEPT !.suffix = suffix]

\* the paths the functions are given: missing paths, directories, files
\* that cannot be read, and readable files of every content
FilePaths ==
    {Missing(x) : x \in Suffixes}
    \cup {Directory(x) : x \in Suffixes}
    \cup {File(FALSE, x, c, {}) : x \in Suffixes, c \in {<<>>, <<LBRACE, RBRACE>>}}
    \cup {File(TRUE, x, c, {}) :
            x \in Suffixes,
            c \in SeqsOver({LF, NUL, LBRACE, RBRACE, LETTER, HIGH}, MaxLen)}

\* the paths met together with a run of the file command
SniffedPaths ==
    {p \in FilePaths :
        p.suffix = ".txt" /\ \A i \in DOMAIN p.content : p.content[i] \in {NUL, LETTER}}

\* a function is about to be called on a path: without the file command on
\* any path, with it on a sniffed path
FInit ==
    /\ rpc = "start"
    /\ data = NoData
    /\ config = ConfigNone
    /\ placed = {}
    /\ handlers = <<>>
    /\ file = "unread"
    /\ mpc = "start"
    /\ \/ /\ path \in FilePaths
          /\ missing = {"file"}
          /\ fileout = "none"
       \/ /\ path \in SniffedPaths
          /\ missing = {}
          /\ fileout \in FileCmdOutcomes
    /\ status = "ok"
    /\ stdout = <<>>
    /\ stderr = <<>>
    /\ spawned = <<>>
    /\ evaluated = <<>>
    /\ invoked = <<>>
    /\ result = "none"
    /\ tty = FALSE
    /\ height = 1
    /\ pagerin = <<>>
    /\ nread = 0
    /\ PIdle
    /\ ret = "none"

\* is_json_file(path)
IsJsonFile ==
    /\ mpc = "start"
    /\ LET r == is_json_file(path)
       IN /\ result' = IF r.raised = "none" THEN "return" ELSE "raise"
          /\ ret' = IF r.raised = "none" THEN r.ret ELSE "none"
          /\ nread' = r.read
    /\ mpc' = "is_json_file"
    /\ UNCHANGED <<envvars, stdout, stderr, spawned, evaluated, invoked,
                   pagerin, pvars, rvars>>

\* BinaryHandler.can_handle(path)
BinaryHandlerCanHandle ==
    /\ mpc = "start"
    /\ LET r == BinaryHandler_can_handle(path, {"file"} \ missing, fileout)
       IN /\ result' = IF r.raised = "none" THEN "return" ELSE "raise"
          /\ ret' = IF r.raised = "none" THEN r.ret ELSE "none"
          /\ spawned' = r.spawned
          /\ nread' = r.read
    /\ mpc' = "can_handle"
    /\ evaluated' = <<"BinaryHandler">>
    /\ UNCHANGED <<envvars, stdout, stderr, invoked, pagerin, pvars, rvars>>

FNext ==
    \/ IsJsonFile
    \/ BinaryHandlerCanHandle
    \/ CountLines

SpecFile == FInit /\ [][FNext]_vars

(***************************************************************************)
(* BinaryHandler.handle statement by statement, with the processes it      *)
(* starts and the pipes between them.                                      *)
(***************************************************************************)
\* rows a hexdump process writes to its standard output
MaxOut == 2
\* messages a hexdump process writes to its error stream
MaxErr == 2
\* what a pipe holds before a write to it blocks
PipeCap == 1

\* what a hexdump process does: the rows and the messages it writes, and
\* the status it exits with; every run of the command has its own
Scripts == [out : 0..MaxOut, err : 0..MaxErr, rc : {0, 1}]

\* subprocess.Popen(command, stdout=PIPE, stderr=PIPE): the handler holds
\* the read ends of both pipes
Popen_hexdump(sc) ==
    [st |-> "running", out |-> sc.out, err |-> sc.err, obuf |-> 0,
     ebuf |-> 0, hfd |-> "open", how |-> "none", rc |-> 0, exit |-> sc.rc]

\* subprocess.Popen(["less", "-R"], stdin=hexdump_process.stdout)
Popen_less == [NoProc EXCEPT !.st = "running"]

\* a read end of p's stdout pipe is open: the handler's, or the standard
\* input of the running pager
HasReader(p) ==
    proc[p].hfd = "open" \/ (p = "hexdump" /\ proc["less"].st = "running")

\* what the statements of handle and the processes leave alone
hframe ==
    <<path, status, missing, evaluated, invoked, tty, height, fileout,
      pagerin, nread, ret, rvars>>

\* BinaryHandler.handle is about to be called on a binary file
HInit ==
    /\ rpc = "start"
    /\ data = NoData
    /\ config = ConfigNone
    /\ placed = {}
    /\ handlers = <<>>
    /\ file = "unread"
    /\ mpc = "which"
    /\ path = File(TRUE, ".bin", <<NUL>>, {})
    /\ missing \in SUBSET BinaryCommands
    /\ status = "ok"
    /\ stdout = <<>>
    /\ stderr = <<>>
    /\ spawned = <<>>
    /\ evaluated = <<>>
    /\ invoked = <<"BinaryHandler">>
    /\ result = "none"
    /\ tty \in BOOLEAN
    /\ height \in 1..MaxHeight
    /\ fileout = "none"
    /\ pagerin = <<>>
    /\ nread = 0
    /\ ret = "none"
    /\ proc = NoProcs
    /\ nlines = 0
    /\ script = NoScript
    /\ pending = "none"

\* if not shutil.which("hexdump"): log and return
Which ==
    /\ mpc = "which"
    /\ IF "hexdump" \in missing
       THEN /\ stderr' = <<"hexdump not found">>
            /\ result' = "return"
            /\ mpc' = "returned"
       ELSE /\ mpc' = "popen_count"
            /\ UNCHANGED <<stderr, result>>
    /\ UNCHANGED <<hframe, script, stdout, spawned, proc, nlines, pending>>

\* process = subprocess.Popen(command, stdout=PIPE, stderr=PIPE)
PopenCount ==
    /\ mpc = "popen_count"
    /\ \E sc \in Scripts :
           /\ script' = sc
           /\ proc' = [proc EXCEPT !["count"] = Popen_hexdump(sc)]
    /\ spawned' = Append(spawned, "hexdump")
    /\ mpc' = "count_read"
    /\ UNCHANGED <<hframe, stdout, stderr, result, nlines, pending>>

\* for _ in process.stdout: line_count += 1; the loop ends at end-of-file,
\* when the process has exited and the pipe is empty
CountRead ==
    /\ mpc = "count_read"
    /\ \/ /\ proc["count"].obuf > 0
          /\ proc' = [proc EXCEPT !["count"].obuf = @ - 1]
          /\ nlines' = nlines + 1
          /\ mpc' = "count_read"
       \/ /\ proc["count"].obuf = 0
          /\ proc["count"].st = "exited"
          /\ mpc' = "count_close"
          /\ UNCHANGED <<proc, nlines>>
    /\ UNCHANGED <<hframe, script, stdout, stderr, spawned, result, pending>>

\* process.stdout.close()
CountClose ==
    /\ mpc = "count_close"
    /\ proc' = [proc EXCEPT !["count"].hfd = "closed"]
    /\ mpc' = "count_wait"
    /\ UNCHANGED <<hframe, script, stdout, stderr, spawned, result, nlines,
                   pending>>

\* process.wait()
CountWait ==
    /\ mpc = "count_wait"
    /\ proc["count"].st = "exited"
    /\ proc' = [proc EXCEPT !["count"].st = "reaped"]
    /\ mpc' = "decide"
    /\ UNCHANGED <<hframe, script, stdout, stderr, spawned, result, nlines,
                   pending>>

\* if line_count > terminal_height and shutil.which("less"): the height is
\* infinite when standard output is no terminal
Decide ==
    /\ mpc = "decide"
    /\ mpc' = IF tty /\ nlines > height /\ "less" \notin missing
              THEN "popen_hexdump" ELSE "popen_direct"
    /\ UNCHANGED <<hframe, script, stdout, stderr, spawned, result, proc,
                   nlines, pending>>

\* hexdump_process = subprocess.Popen(command, stdout=PIPE, stderr=PIPE)
PopenHexdump ==
    /\ mpc = "popen_hexdump"
    /\ \E sc \in Scripts :
           /\ script' = sc
           /\ proc' = [proc EXCEPT !["hexdump"] = Popen_hexdump(sc)]
    /\ spawned' = Append(spawned, "hexdump")
    /\ mpc' = "popen_less"
    /\ UNCHANGED <<hframe, stdout, stderr, result, nlines, pending>>

\* less_process = subprocess.Popen(["less", "-R"], stdin=...), or the
\* FileNotFoundError of a pager that can no longer be executed
PopenLess ==
    /\ mpc = "popen_less"
    /\ \/ /\ proc' = [proc EXCEPT !["less"] = Popen_less]
          /\ spawned' = Append(spawned, "less")
          /\ mpc' = "close_stdout"
          /\ UNCHANGED pending
       \/ /\ pending' = "FileNotFoundError"
          /\ mpc' = "finally_poll"
          /\ UNCHANGED <<proc, spawned>>
    /\ UNCHANGED <<hframe, script, stdout, stderr, result, nlines>>

\* the statement hexdump_process.stdout.close() left out
CloseStdout_keeps_open ==
    /\ mpc = "close_stdout"
    /\ mpc' = "wait_less"
    /\ UNCHANGED <<hframe, script, stdout, stderr, spawned, result, proc,
                   nlines, pending>>

\* hexdump_process.stdout.close()
CloseStdout ==
    /\ mpc = "close_stdout"
    /\ proc' = [proc EXCEPT !["hexdump"].hfd = "closed"]
    /\ mpc' = "wait_less"
    /\ UNCHANGED <<hframe, script, stdout, stderr, spawned, result, nlines,
                   pending>>

\* less_process.wait()
WaitLess ==
    /\ mpc = "wait_less"
    /\ proc["less"].st = "exited"
    /\ proc' = [proc EXCEPT !["less"].st = "reaped"]
    /\ mpc' = "finally_poll"
    /\ UNCHANGED <<hframe, script, stdout, stderr, spawned, result, nlines,
                   pending>>

\* finally: if hexdump_process.poll() is None; poll() collects a process
\* that has exited
FinallyPoll ==
    /\ mpc = "finally_poll"
    /\ IF proc["hexdump"].st = "running"
       THEN /\ mpc' = "terminate"
            /\ UNCHANGED proc
       ELSE /\ proc' = [proc EXCEPT !["hexdump"].st = "reaped"]
            /\ mpc' = "after_finally"
    /\ UNCHANGED <<hframe, script, stdout, stderr, spawned, result, nlines,
                   pending>>

\* hexdump_process.terminate(): SIGTERM ends a process that is running
Terminate ==
    /\ mpc = "terminate"
    /\ proc' = IF proc["hexdump"].st = "running"
               THEN [proc EXCEPT !["hexdump"].st = "exited",
                                 !["hexdump"].how = "SIGTERM",
                                 !["hexdump"].rc = 15]
               ELSE proc
    /\ mpc' = "wait_hexdump"
    /\ UNCHANGED <<hframe, script, stdout, stderr, spawned, result, nlines,
                   pending>>

\* the finally block without hexdump_process.wait()
WaitHexdump_left_out ==
    /\ mpc = "wait_hexdump"
    /\ mpc' = "after_finally"
    /\ UNCHANGED <<hframe, script, stdout, stderr, spawned, result, proc,
                   nlines, pending>>

\* hexdump_process.wait()
WaitHexdump ==
    /\ mpc = "wait_hexdump"
    /\ proc["hexdump"].st = "exited"
    /\ proc' = [proc EXCEPT !["hexdump"].st = "reaped"]
    /\ mpc' = "after_finally"
    /\ UNCHANGED <<hframe, script, stdout, stderr, spawned, result, nlines,
                   pending>>

\* after the finally block: the outer except FileNotFoundError logs the
\* exception on its way out; otherwise a non-zero exit code of less is
\* logged; handle returns
AfterFinally ==
    /\ mpc = "after_finally"
    /\ stderr' = IF pending # "none" THEN <<"Required command not found">>
                 ELSE IF proc["less"].rc # 0 THEN <<"less exited with code">>
                 ELSE stderr
    /\ pending' = "none"
    /\ result' = "return"
    /\ mpc' = "returned"
    /\ UNCHANGED <<hframe, script, stdout, spawned, proc, nlines>>

\* direct_process = subprocess.Popen(command, stdout=PIPE, stderr=PIPE)
PopenDirect ==
    /\ mpc = "popen_direct"
    /\ \E sc \in Scripts :
           /\ script' = sc
           /\ proc' = [proc EXCEPT !["direct"] = Popen_hexdump(sc)]
    /\ spawned' = Append(spawned, "hexdump")
    /\ mpc' = "communicate"
    /\ UNCHANGED <<hframe, stdout, stderr, result, nlines, pending>>

\* direct_process.communicate(), reading: both pipes are drained
CommunicateRead ==
    /\ mpc = "communicate"
    /\ \/ /\ proc["direct"].obuf > 0
          /\ proc' = [proc EXCEPT !["direct"].obuf = @ - 1]
       \/ /\ proc["direct"].ebuf > 0
          /\ proc' = [proc EXCEPT !["direct"].ebuf = @ - 1]
    /\ mpc' = "communicate"
    /\ UNCHANGED <<hframe, script, stdout, stderr, spawned, result, nlines,
                   pending>>

\* direct_process.communicate(), at the end of both streams: the pipes are
\* closed and the process is waited on; its output is printed when it
\* returned 0, otherwise the error is logged; handle returns
CommunicateDone ==
    /\ mpc = "communicate"
    /\ proc["direct"].st = "exited"
    /\ proc["direct"].obuf = 0
    /\ proc["direct"].ebuf = 0
    /\ proc' = [proc EXCEPT !["direct"].st = "reaped",
                            !["direct"].hfd = "closed"]
    /\ IF proc["direct"].rc = 0
       THEN /\ stdout' = [i \in 1..script.out |-> "row"]
            /\ UNCHANGED stderr
       ELSE /\ stderr' = <<"hexdump exited with code">>
            /\ UNCHANGED stdout
    /\ result' = "return"
    /\ mpc' = "returned"
    /\ UNCHANGED <<hframe, script, spawned, nlines, pending>>

\* a hexdump process writes a row to its standard output: it is killed by
\* SIGPIPE when no read end is open, and waits while the pipe is full
ProducerWriteOut(p) ==
    /\ proc[p].st = "running"
    /\ proc[p].out > 0
    /\ IF ~HasReader(p)
       THEN proc' = [proc EXCEPT ![p].st = "exited", ![p].how = "SIGPIPE",
                                 ![p].rc = 13]
       ELSE /\ proc[p].obuf < PipeCap
            /\ proc' = [proc EXCEPT ![p].obuf = @ + 1, ![p].out = @ - 1]
    /\ UNCHANGED <<hframe, script, mpc, stdout, stderr, spawned, result,
                   nlines, pending>>

\* a hexdump process writes a message to its error stream: the handler holds
\* the read end and never reads it, so the write waits once the pipe is full
ProducerWriteErr(p) ==
    /\ proc[p].st = "running"
    /\ proc[p].err > 0
    /\ proc[p].ebuf < PipeCap
    /\ proc' = [proc EXCEPT ![p].ebuf = @ + 1, ![p].err = @ - 1]
    /\ UNCHANGED <<hframe, script, mpc, stdout, stderr, spawned, result,
                   nlines, pending>>

\* a hexdump process exits after it wrote all it had to write
ProducerExit(p) ==
    /\ proc[p].st = "running"
    /\ proc[p].out = 0
    /\ proc[p].err = 0
    /\ proc' = [proc EXCEPT ![p].st = "exited", ![p].how = "exit",
                            ![p].rc = proc[p].exit]
    /\ UNCHANGED <<hframe, script, mpc, stdout, stderr, spawned, result,
                   nlines, pending>>

\* less reads a row from its standard input
LessRead ==
    /\ proc["less"].st = "running"
    /\ proc["hexdump"].obuf > 0
    /\ proc' = [proc EXCEPT !["hexdump"].obuf = @ - 1]
    /\ UNCHANGED <<hframe, script, mpc, stdout, stderr, spawned, result,
                   nlines, pending>>

\* less exits: the user quits, at the end of the input or before it, or
\* less fails
LessExit ==
    /\ proc["less"].st = "running"
    /\ \E rc \in {0, 1} :
           proc' = [proc EXCEPT !["less"].st = "exited",
                                !["less"].how = "exit", !["less"].rc = rc]
    /\ UNCHANGED <<hframe, script, mpc, stdout, stderr, spawned, result,
                   nlines, pending>>

\* a statement of handle
HandlerStep ==
    \/ Which
    \/ PopenCount
    \/ CountRead
    \/ CountClose
    \/ CountWait
    \/ Decide
    \/ PopenHexdump
    \/ PopenLess
    \/ CloseStdout
    \/ WaitLess
    \/ FinallyPoll
    \/ Terminate
    \/ WaitHexdump
    \/ AfterFinally
    \/ PopenDirect
    \/ CommunicateRead
    \/ CommunicateDone

\* a step of a hexdump process
ProducerStep ==
    \E p \in Producers :
        \/ ProducerWriteOut(p)
        \/ ProducerWriteErr(p)
        \/ ProducerExit(p)

HNext ==
    \/ HandlerStep
    \/ ProducerStep
    \/ LessRead
    \/ LessExit

SpecHandle == HInit /\ [][HNext]_vars

\* handle and the hexdump processes run whenever they can, and the pager
\* exits in the end
SpecHandleFair ==
    /\ HInit
    /\ [][HNext]_vars
    /\ WF_vars(HandlerStep)
    /\ WF_vars(ProducerStep)
    /\ WF_vars(LessExit)

(***************************************************************************)
(* Properties of the registry.                                             *)
(***************************************************************************)
\* the Config get_handlers works on
EffConfig == IF config = ConfigNone THEN ConfigDefault ELSE config

\* the place of every class in handler_map
static_index ==
    [cls \in Classes |-> CHOOSE i \in DOMAIN handler_map : handler_map[i][2] = cls]

StaticIndex(cls) == static_index[cls]

\* the key a class is registered under
RegisteredName(cls) == handler_map[StaticIndex(cls)][1]

\* the place of a class in the resolved list
Position(cls) == CHOOSE i \in DOMAIN handlers : handlers[i] = cls

InHandlers(cls) == \E i \in DOMAIN handlers : handlers[i] = cls

\* the override of the class's registered name when one is set, otherwise
\* the class's own priority
EffectivePriority(cfg, cls) ==
    LET name == RegisteredName(cls)
    IN IF name \in DOMAIN cfg.handlers /\ cfg.handlers[name].priority # PyNone
       THEN cfg.handlers[name].priority.v
       ELSE class_priority(cls)

\* a goes before b: higher priority first, equal priorities in static order
GoesBefore(pa, a, pb, b) ==
    pa > pb \/ (pa = pb /\ StaticIndex(a) < StaticIndex(b))

\* C1: the list get_handlers returns is sorted by descending effective
\* priority, and handlers of equal effective priority keep the order of
\* handler_map.
C1_SortedStable ==
    rpc = "resolved" =>
        LET eff == [i \in DOMAIN handlers |-> EffectivePriority(EffConfig, handlers[i])]
        IN \A i, j \in DOMAIN handlers :
              i < j => GoesBefore(eff[i], handlers[i], eff[j], handlers[j])

\* C1 witness: json was given priority 150 and pdf priority 0: json leads the
\* list, ahead of directory, and pdf stands next to default, before it.
C1_Witness ==
    /\ rpc = "resolved"
    /\ placed = {"json", "pdf"}
    /\ config.handlers["json"] = HandlerConfig2(PyBool(TRUE), PyInt(150))
    /\ config.handlers["pdf"] = HandlerConfig2(PyBool(TRUE), PyInt(0))
    /\ Len(handlers) = 12
    /\ handlers[1] = "JsonHandler"
    /\ handlers[2] = "DirectoryHandler"
    /\ handlers[11] = "PDFHandler"
    /\ handlers[12] = "DefaultFileHandler"

\* the names whose entry disables the handler
Disabled(cfg) ==
    {n \in Names : n \in DOMAIN cfg.handlers /\ ~truthy(cfg.handlers[n].enabled)}

\* cfg with every entry enabled
AllEnabled(cfg) ==
    [cfg EXCEPT !.handlers =
        [n \in DOMAIN @ |-> [@[n] EXCEPT !.enabled = PyBool(TRUE)]]]

\* C2: get_handlers returns the 12 handlers minus the disabled ones, each
\* once, in the order they have in the list for the same Config with nothing
\* disabled.
C2_DisabledRemoved ==
    rpc = "resolved" =>
        LET D == Disabled(EffConfig)
            Kept(cls) == RegisteredName(cls) \notin D
        IN /\ Len(handlers) = 12 - Cardinality(D)
           /\ {handlers[i] : i \in DOMAIN handlers}
                = {c \in Classes : RegisteredName(c) \notin D}
           /\ \A i, j \in DOMAIN handlers : i # j => handlers[i] # handlers[j]
           /\ handlers = SelectSeq(get_handlers(AllEnabled(EffConfig)), Kept)

\* C2 witness: directory and binary are disabled and ten handlers are
\* returned, pdf before media.
C2_Witness ==
    /\ rpc = "resolved"
    /\ Disabled(EffConfig) = {"directory", "binary"}
    /\ Len(handlers) = 10
    /\ handlers[1] = "ArchiveHandler"
    /\ handlers[3] = "PDFHandler"
    /\ handlers[4] = "MediaHandler"

\* the items of the loaded document
Items == data.handlers.items

\* the loaded document without its items of unknown name
RECURSIVE KnownItems(_)
KnownItems(items) ==
    IF items = <<>> THEN <<>>
    ELSE (IF Head(items).name \in Names THEN <<Head(items)>> ELSE <<>>)
         \o KnownItems(Tail(items))

WithoutUnknown(d) == [d EXCEPT !.handlers.items = KnownItems(@)]

HasUnknown == \E i \in DOMAIN Items : Items[i].name \notin Names

\* C3: an entry of unknown name adds no key to Config.handlers and no handler
\* to the list, and leaves the Config what the document without that entry
\* gives.
C3_UnknownIgnored ==
    (rpc \in {"loaded", "resolved"} /\ data # NoData /\ HasUnknown) =>
        /\ DOMAIN config.handlers = Names
        /\ config = load_config_from_dict(WithoutUnknown(data))
        /\ rpc = "resolved" =>
             /\ \A i \in DOMAIN handlers : handlers[i] \in Classes
             /\ handlers = get_handlers(load_config_from_dict(WithoutUnknown(data)))

\* C3 witness: a document with a table of unknown name, which sets a
\* priority, and a table for json that disables it, was loaded and resolved.
C3_Witness ==
    /\ rpc = "resolved"
    /\ data # NoData
    /\ \E i, j \in DOMAIN Items :
         /\ Items[i].name = "unknown"
         /\ Items[i].value.t = "dict"
         /\ Items[i].value.priority = PyInt(150)
         /\ Items[i].value.enabled = PyBool(FALSE)
         /\ Items[j].name = "json"
         /\ Items[j].value.enabled = PyBool(FALSE)
    /\ ~InHandlers("JsonHandler")
    /\ Len(handlers) = 11

\* the item of the loaded document for a name, <<>> when it has none
ItemOf(name) ==
    IF \E i \in DOMAIN Items : Items[i].name = name
    THEN <<Items[CHOOSE i \in DOMAIN Items : Items[i].name = name].value>>
    ELSE <<>>

\* the handler's entry leaves priority unset, or the handler has no entry
PriorityUnset(name) ==
    IF data # NoData
    THEN \/ ItemOf(name) = <<>>
         \/ /\ ItemOf(name)[1].t = "dict"
            /\ ItemOf(name)[1].priority = Absent
    ELSE \/ config = ConfigNone
         \/ name \notin DOMAIN config.handlers
         \/ config.handlers[name].priority = PyNone

\* cls is in the list, at the place its own default priority gives it
\* among the other handlers of the list
OrderedByDefault(cls) ==
    /\ InHandlers(cls)
    /\ LET pos == Position(cls)
           own == class_priority(cls)
       IN \A i \in DOMAIN handlers :
             i # pos =>
                (pos < i <=>
                    GoesBefore(own, cls,
                               EffectivePriority(EffConfig, handlers[i]), handlers[i]))

\* C4 as stated: a handler whose entry leaves priority unset, or that has no
\* entry, is in the list and ordered by its own default priority.
C4_UnsetKeepsDefault_Original ==
    rpc = "resolved" =>
        \A cls \in Classes :
            PriorityUnset(RegisteredName(cls)) => OrderedByDefault(cls)

\* C4, amended: a handler whose entry leaves priority unset and does not
\* disable it, or that has no entry, is in the list and ordered by its own
\* default priority.
C4_UnsetKeepsDefault ==
    rpc = "resolved" =>
        \A cls \in Classes :
            (PriorityUnset(RegisteredName(cls))
             /\ RegisteredName(cls) \notin Disabled(EffConfig))
                => OrderedByDefault(cls)

\* C4 witness: the document gives json a table without priority and default
\* priority 150; json is eighth, behind default, directory and the five
\* handlers of higher default priority.
C4_Witness ==
    /\ rpc = "resolved"
    /\ data # NoData
    /\ ItemOf("json") # <<>>
    /\ ItemOf("json")[1].t = "dict"
    /\ ItemOf("json")[1].priority = Absent
    /\ ItemOf("json")[1].options = PyDict(1)
    /\ ItemOf("default") # <<>>
    /\ ItemOf("default")[1].priority = PyInt(150)
    /\ handlers[1] = "DefaultFileHandler"
    /\ handlers[8] = "JsonHandler"

\* the value the claim expects a field to have after the load
ExpectedEntry(name, raw) ==
    HandlerConfig(
        IF raw.enabled.t = "bool" THEN raw.enabled ELSE PyBool(TRUE),
        IF raw.priority.t = "int" THEN raw.priority
        ELSE PyInt(DefaultPriorities[name]),
        IF raw.options.t = "dict" THEN raw.options ELSE PyDict(0))

\* C10: after a load every field of a handler table that has the wrong type
\* holds that field's default, every well-typed field holds its configured
\* value, and the handlers without a table hold their defaults.
C10_FieldByField ==
    (rpc \in {"loaded", "resolved"} /\ data # NoData) =>
        \A name \in Names :
            config.handlers[name] =
                IF ItemOf(name) # <<>> /\ ItemOf(name)[1].t = "dict"
                THEN ExpectedEntry(name, ItemOf(name)[1])
                ELSE ConfigDefault.handlers[name]

(***************************************************************************)
(* Properties of the command.                                              *)
(***************************************************************************)
\* the registry the user's configuration resolves to
UserRegistry == get_handlers(load_config_from_dict(data))

\* the place of the first handler of reg whose predicate takes p, 0 if none
FirstMatch(reg, p) ==
    IF \E i \in DOMAIN reg : can_handle(reg[i], p)
    THEN CHOOSE i \in DOMAIN reg :
            /\ can_handle(reg[i], p)
            /\ \A j \in 1..(i - 1) : ~can_handle(reg[j], p)
    ELSE 0

\* C5: for an existing path the predicates are evaluated in registry order
\* up to the first that is true, and the action of that handler, and no
\* other, is invoked.
C5_FirstMatchOnly ==
    (mpc = "done" /\ path.exists /\ FirstMatch(UserRegistry, path) > 0) =>
        LET k == FirstMatch(UserRegistry, path)
        IN /\ evaluated = SubSeq(UserRegistry, 1, k)
           /\ invoked = <<UserRegistry[k]>>

\* C6: for a path that does not exist main ends with exit code 1 and no
\* predicate was evaluated, no action invoked and no command run.
C6_MissingPath ==
    (mpc = "done" /\ ~path.exists) =>
        /\ result = "1"
        /\ spawned = <<>>
        /\ evaluated = <<>>
        /\ invoked = <<>>

\* C6 witness: main ended on a missing path with every command installed.
C6_Witness ==
    /\ mpc = "done"
    /\ ~path.exists
    /\ missing = {}
    /\ result = "1"

\* C7: no diagnostic of the program is on standard output.
C7_DiagnosticsOnStderr ==
    mpc = "done" => \A i \in DOMAIN stdout : stdout[i] \notin Diagnostics

\* a recoverable condition met the run: the command to run is missing, it
\* failed, or the file could not be read
Recoverable ==
    \/ spawned = <<>>
    \/ status # "ok"
    \/ ~path.readable

\* C8: for an existing path main ends with exit code 0, with a diagnostic on
\* the error stream when a recoverable condition occurred.
C8_ExistingPathExitsZero ==
    (mpc = "done" /\ path.exists) =>
        /\ result = "0"
        /\ Recoverable => stderr # <<>>

\* C9: when no handler of the registry takes the path, main ends in an error
\* and renders nothing.
C9_NoMatchIsError ==
    (mpc = "done" /\ path.exists /\ FirstMatch(UserRegistry, path) = 0) =>
        /\ result = "1"
        /\ spawned = <<>>

(***************************************************************************)
(* Properties of load_config.                                              *)
(***************************************************************************)
\* the configuration file exists but could not be read or parsed
FileUnusable == file \in FileOutcomes \ {"ok"}

\* C11: when the configuration file exists but cannot be read or parsed as
\* TOML, load_config does not raise and returns a Config equal to
\* Config.default(): version "1.0" and the 12 handlers, all enabled, with
\* their default priorities; the registry resolved from it is the one
\* resolved when no file exists.
C11_UnusableFileGivesDefault ==
    FileUnusable =>
        /\ rpc # "raised"
        /\ config = ConfigDefault
        /\ config.version = "1.0"
        /\ DOMAIN config.handlers = Names
        /\ Cardinality(Names) = 12
        /\ \A n \in Names :
              /\ config.handlers[n].enabled = PyBool(TRUE)
              /\ config.handlers[n].priority = PyInt(DefaultPriorities[n])
        /\ rpc = "resolved" =>
              handlers = get_handlers(load_config("none", NoData).config)

\* C11 witness: a file that is no TOML was met and the registry resolved
\* from the returned Config holds the 12 handlers.
C11_Witness ==
    /\ file = "TOMLDecodeError"
    /\ rpc = "resolved"
    /\ Len(handlers) = 12
    /\ handlers[1] = "DirectoryHandler"

(***************************************************************************)
(* Properties of paging and of the line count.                             *)
(***************************************************************************)
\* the path is a regular file
IsFile == path.exists /\ ~path.is_dir

\* the lines of the file main counts
FileLines == count_lines(path).ret

\* the commands that ran
Ran == {spawned[i] : i \in DOMAIN spawned}

\* C12: a pager is spawned only when standard output is a terminal and the
\* output has more lines than the terminal has rows; when it has at most as
\* many lines as rows, or standard output is no terminal, the content is
\* written directly and no pager is spawned.
C12_PagerOnlyOnTerminalOverflow ==
    (mpc = "done" /\ IsFile) =>
        /\ "less" \in Ran => (tty /\ FileLines > height)
        /\ ((~tty \/ FileLines <= height) /\ result = "0") =>
              spawned = <<"cat">>

\* C13: when the output is longer than the terminal and only the pager is
\* missing, main does not raise or fail and the content is written to
\* standard output.
C13_MissingPagerWritesDirectly ==
    (mpc = "done" /\ IsFile /\ path.readable /\ tty /\ FileLines > height
       /\ missing = {"less"} /\ status = "ok") =>
        /\ result = "0"
        /\ \E i \in DOMAIN stdout : stdout[i] = "content"

\* what the program wrote, on either stream
Printed == {(stdout \o stderr)[j] : j \in DOMAIN (stdout \o stderr)}

\* the file cannot be opened for reading
Unreadable == path_open(path) # "none"

Produced == hexdump_run(path, status).out

\* BinaryHandler.handle returned
Handled == mpc = "handled" /\ invoked = <<"BinaryHandler">>

\* C14: on the paged path the pager's input, and on the direct path what is
\* written to standard output, is the producer's full output, unaltered.
C14_SameBytesEitherWay ==
    (Handled /\ "hexdump" \in Ran) =>
        IF "less" \in Ran THEN pagerin = Produced ELSE stdout = Produced

\* C19: when hexdump is not installed the handler logs it and the content
\* of the file is still displayed: something is written to standard output
\* or handed to a pager.
C19_MissingToolStillDisplays ==
    (Handled /\ "hexdump" \in missing /\ IsFile /\ path.readable
       /\ path.content # <<>>) =>
        /\ stderr # <<>>
        /\ (stdout # <<>> \/ pagerin # <<>>)

(***************************************************************************)
(* Properties of the predicates, the size ceiling and count_lines.         *)
(***************************************************************************)
\* the path is a file of no bytes with the .json suffix
EmptyJsonFile == IsFile /\ str_lower(path.suffix) = ".json" /\ path.content = <<>>

\* C15: a zero-byte .json file is a match of the JSON predicate, and the
\* command then prints an "(empty)" marker and does not run the formatter.
C15_EmptyJsonMarker ==
    (mpc = "done" /\ EmptyJsonFile /\ missing = {}) =>
        /\ is_json_file(path) = [raised |-> "none", ret |-> TRUE]
        /\ \E i \in DOMAIN stdout : stdout[i] = "(empty)"
        /\ "jq" \notin Ran

\* the file is larger than the binary handler's ceiling
Oversized == IsFile /\ st_size(path) > MAX_BINARY_SIZE_BYTES

Terminators(bytes) == Cardinality({i \in DOMAIN bytes : bytes[i] = LF})

\* the last line of the bytes has no terminator
OpenLastLine(bytes) == bytes # <<>> /\ bytes[Len(bytes)] # LF

\* C17 as stated: for a readable file count_lines returns the number of
\* line terminators among its bytes.
C17_CountsTerminators_Original ==
    (mpc = "counted" /\ ~Unreadable) =>
        /\ result = "return"
        /\ ret = Terminators(path.content)

\* C17: for a readable file count_lines returns the number of lines of its
\* bytes: the line terminators, and one more when the last line has none;
\* bytes that are no UTF-8 count like any other.
C17_CountsLines ==
    (mpc = "counted" /\ ~Unreadable) =>
        /\ result = "return"
        /\ ret = Terminators(path.content)
                   + (IF OpenLastLine(path.content) THEN 1 ELSE 0)

\* C17 witness: a file of two lines whose bytes are no UTF-8 and whose last
\* line has no terminator was counted as 2.
C17_Witness ==
    /\ mpc = "counted"
    /\ path.readable
    /\ path.content = <<HIGH, LF, HIGH>>
    /\ ret = 2

\* C20: is_json_file and BinaryHandler.can_handle return a boolean and
\* raise nothing, whatever the path is and however the file command ends.
C20_PredicatesNeverRaise ==
    mpc \in {"is_json_file", "can_handle"} =>
        /\ result = "return"
        /\ ret \in BOOLEAN

(***************************************************************************)
(* Properties of the name derivation, the default priorities and the       *)
(* validation of a priority.                                               *)
(***************************************************************************)

\* the priority a configuration asks for under the registered name
Override(cfg, name) ==
    IF name \in DOMAIN cfg.handlers THEN cfg.handlers[name].priority
    ELSE PyNone

\* the name derived from every registered class is the class's key
DerivedNamesMatch ==
    /\ Len(handler_map) = 12
    /\ \A i \in DOMAIN handler_map :
           derived_names[handler_map[i][2]] = handler_map[i][1]

\* C28: for each of the twelve registered handlers the name get_priority
\* derives from the class name is the key the handler is registered under,
\* so an entry under that key both filters the handler and sets its sort key.
C28_DerivedNameIsRegisteredName ==
    /\ DerivedNamesMatch
    /\ rpc = "resolved" =>
           \A i \in DOMAIN handler_map :
               LET name == handler_map[i][1]
                   cls == handler_map[i][2]
               IN /\ InHandlers(cls) <=>
                         (name \notin DOMAIN EffConfig.handlers
                          \/ truthy(EffConfig.handlers[name].enabled))
                  /\ get_priority(EffConfig, cls) =
                         IF Override(EffConfig, name) # PyNone
                         THEN Override(EffConfig, name).v
                         ELSE class_priority(cls)

\* an entry under the key "default" moved DefaultFileHandler to the front
C28_Witness ==
    /\ rpc = "resolved"
    /\ "default" \in DOMAIN config.handlers
    /\ config.handlers["default"].priority = PyInt(150)
    /\ truthy(config.handlers["default"].enabled)
    /\ handlers[1] = "DefaultFileHandler"

\* no entry of the configuration sets a priority
AllUnset(cfg) ==
    \A name \in DOMAIN cfg.handlers : cfg.handlers[name].priority = PyNone

\* no entry of the configuration disables its handler
NoneDisabled(cfg) ==
    \A name \in DOMAIN cfg.handlers : truthy(cfg.handlers[name].enabled)

\* every priority of Config.default() is the value of the class's priority()
DefaultsMatchClasses ==
    /\ DOMAIN ConfigDefault.handlers = Names
    /\ \A i \in DOMAIN handler_map :
           ConfigDefault.handlers[handler_map[i][1]].priority =
               PyInt(class_priority(handler_map[i][2]))

\* the list get_handlers returns for Config.default()
DefaultHandlers == get_handlers(ConfigDefault)

\* get_handlers(None) and get_handlers(Config.default()) return the same list
NoneIsDefault == get_handlers(ConfigNone) = DefaultHandlers

C30_NonIntegerPriorityUnset ==
    (rpc \in {"loaded", "resolved"} /\ data # NoData) =>
        \A name \in Names :
            (ItemOf(name) # <<>> /\ ItemOf(name)[1].t = "dict") =>
                config.handlers[name].priority =
                    IF ItemOf(name)[1].priority.t = "int"
                    THEN ItemOf(name)[1].priority
                    ELSE PyInt(DefaultPriorities[name])

(***************************************************************************)
(* Properties of the predicates.                                           *)
(***************************************************************************)

\* a NUL byte is among the first sample_size bytes read from the file
NulInSample ==
    /\ path.readable
    /\ \E i \in 1..sample_size :
           i <= Len(path.content) /\ path.content[i] = NUL

\* the file command printed an encoding whose text the content check judges
TextEncoding == fileout \in {"us-ascii", "utf-8", "iso-8859-1"}

\* the file command ended with a non-zero status, with output that cannot be
\* decoded, or was stopped at its timeout
FileCmdFailed ==
    fileout \in {"CalledProcessError", "UnicodeDecodeError", "TimeoutExpired"}

LeadingContent ==
    LET n == IF Len(path.content) < JSON_CONTENT_CHECK_BYTES
             THEN Len(path.content) ELSE JSON_CONTENT_CHECK_BYTES
    IN strip(SubSeq(path.content, 1, n))

\* a readable regular file of text whose suffix is not .json
PlainTextFile ==
    /\ IsFile
    /\ path.readable
    /\ str_lower(path.suffix) # ".json"
    /\ is_utf8(path.content)

\* C24: for a file without the .json suffix the JSON predicate is true when
\* the leading content without white space starts with an opening brace or
\* bracket, valid JSON or not, and false when the file is empty or starts
\* with another character.
C24_JsonByLeadingChar ==
    (mpc = "is_json_file" /\ PlainTextFile) =>
        /\ result = "return"
        /\ ret = (LeadingContent # <<>> /\ Head(LeadingContent) = LBRACE)

\* C25: every predicate reads at most its fixed budget of the file,
\* whatever the file's size and suffix: is_json_file at most
\* JSON_CONTENT_CHECK_BYTES bytes, BinaryHandler's content check at most
\* sample_size bytes.
C25_BoundedRead ==
    /\ mpc = "is_json_file" => nread <= JSON_CONTENT_CHECK_BYTES
    /\ mpc = "can_handle" => nread <= sample_size

(***************************************************************************)
(* Properties of the processes BinaryHandler.handle runs.                  *)
(***************************************************************************)

\* the hexdump processes end with a non-zero status and write nothing
ProducerFailedEmpty ==
    /\ "hexdump" \notin missing
    /\ hexdump_run(path, status).rc # 0
    /\ hexdump_run(path, status).out = <<>>

\* C26: when hexdump exits with a non-zero status and no output, handle
\* reports the failure to its caller (an exception or a failure status);
\* it does not return as it does after a successful display.
C26_ProducerFailurePropagates ==
    (mpc = "handled" /\ ProducerFailedEmpty) => result # "return"

\* the pager was started
PagerSpawned == proc["less"].st # "none"

\* C21: on the paged path the handler closes its handle to the producer's
\* output after it spawned the pager on it and before it waits for the
\* pager; it goes on, and returns, only after the pager has exited; and a
\* producer is waited on only after the handler's handle to its output has
\* been closed.
C21_CloseThenWaitPager ==
    /\ mpc = "close_stdout" =>
           PagerSpawned /\ proc["hexdump"].hfd = "open"
    /\ mpc = "wait_less" => proc["hexdump"].hfd = "closed"
    /\ (PagerSpawned
        /\ mpc \in {"finally_poll", "terminate", "wait_hexdump",
                    "after_finally", "returned"}) =>
           /\ proc["less"].st = "reaped"
           /\ proc["hexdump"].hfd = "closed"
    /\ (PagerSpawned /\ proc["hexdump"].st = "reaped") =>
           proc["hexdump"].hfd = "closed"
    /\ proc["count"].st = "reaped" => proc["count"].hfd = "closed"

\* handle returned from the paged path after the producer wrote all it had
C21_Witness ==
    /\ mpc = "returned"
    /\ spawned = <<"hexdump", "hexdump", "less">>
    /\ proc["less"].st = "reaped"
    /\ proc["hexdump"].st = "reaped"
    /\ proc["hexdump"].how = "exit"
    /\ proc["hexdump"].hfd = "closed"

\* C22: when the pager exits while the producer still writes, the broken
\* pipe is no error: nothing is raised and nothing is logged; and when
\* handle returns every process it started has been waited on, however the
\* exits of producer and pager interleave.
C22_BrokenPipeToleratedAllReaped ==
    mpc = "returned" =>
        /\ result = "return"
        /\ pending = "none"
        /\ \A p \in Procs : proc[p].st \in {"none", "reaped"}
        /\ (proc["hexdump"].how = "SIGPIPE" /\ proc["less"].rc = 0) =>
               stderr = <<>>

\* the user quit the pager, the producer was killed by the broken pipe, and
\* handle returned with both waited on
C22_Witness ==
    /\ mpc = "returned"
    /\ proc["hexdump"].how = "SIGPIPE"
    /\ proc["hexdump"].st = "reaped"
    /\ proc["less"].st = "reaped"
    /\ proc["less"].rc = 0
    /\ proc["count"].st = "reaped"
    /\ stderr = <<>>

\* C27: handle terminates whenever the pager exits in the end, whatever a
\* hexdump process writes to its standard output and to its error stream
\* and whatever its exit status.
C27_HandleTerminates == <>(mpc = "returned")

====
